---- MODULE Spec2Model ----
(***************************************************************************)
(* Model of the invoicing backend (GhostZero7/invoicegen_backend): the     *)
(* GraphQL mutations on invoices, payments and business profiles and the   *)
(* billing service that gates them.                                        *)
(*                                                                         *)
(* The variables are the rows of the relational store plus, for requests   *)
(* that run concurrently, each request's position and the objects its ORM  *)
(* session holds.  Money is counted in whole currency units.  A handler    *)
(* that raises before db.commit() leaves the store as it was: the session  *)
(* is closed by get_db (src/app/core/deps.py:14-19), which rolls back.     *)
(***************************************************************************)
EXTENDS Integers, FiniteSets, Sequences, Bags, TLC

VARIABLES
    now,           \* the current calendar month (utcnow(), to the month)
    user,          \* per user: the users row (subscription_plan, subscription_status)
    subscription,  \* per user: the subscriptions row joined with its plan, or NoRow
    businesses,    \* business_profiles rows
    invoices,      \* invoices rows
    payments,      \* payments rows: a bag, the primary key left out (no
                   \* handler reads a payment id but to find the row)
    pc,            \* per request: position in create_invoice
    session,       \* per request: what the request's Session has loaded
    result,        \* per request: what the caller was told
    issued,        \* history: the invoices committed by create_invoice, in order
    ret,           \* the billing service's answers, once evaluated
    redis          \* the cache store: whether it answers, and key -> stored JSON

vars == <<now, user, subscription, businesses, invoices, payments,
          pc, session, result, issued, ret, redis>>

dbVars == <<now, user, subscription, businesses, invoices, payments>>
reqVars == <<pc, session, result>>

----------------------------------------------------------------------------
(* Bounds of the model *)

MaxPayments == 2
MaxTotal == 2
MaxDrift == 2

\* a nullable column holding NULL
Null == "NULL"

\* the result of .first(): no row, or the row
NoRow == <<>>
Row(r) == <<r>>

\* an Optional[...] input: None, or a value
None == <<>>
Some(x) == <<x>>
Optional(S) == {None} \cup {Some(x) : x \in S}

\* the cache store as the application starts: reachable, nothing stored
RedisAtStartup == [up |-> TRUE, store |-> {}]

Users == {"u1", "u2"}
Owner == "u1"

\* a business id that names no row
MissingBusiness == 0

Amounts == 1..MaxTotal
Totals == (MaxTotal - 1)..MaxTotal

\* the range the model follows amount_paid in
InRange(x) == x >= 0 - MaxDrift /\ x <= MaxTotal + MaxDrift

----------------------------------------------------------------------------
(* Enumerations *)

InvoiceStatus == {"draft", "sent", "viewed", "paid", "overdue", "cancelled", "refunded"}

PaymentStatus == {"pending", "completed", "failed", "refunded"}

----------------------------------------------------------------------------
(* Rows and the queries the handlers run *)

\* the lookup by id alone, whoever asks
AnyInvoice(u, id) == {i \in invoices : i.id = id}

\* db.query(Invoice).join(BusinessProfile).filter(Invoice.id == id,
\*     BusinessProfile.user_id == user.id).first(): the rows it can return
OwnedInvoices(u, id) ==
    {i \in invoices : i.id = id /\
        \E b \in businesses : b.id = i.business_id /\ b.user_id = u}

\* db.query(Payment).join(Invoice).join(BusinessProfile).filter(
\*     Payment.id == id, BusinessProfile.user_id == user.id).first(): the rows
\* it can return, over every id
OwnedPayments(u) ==
    {p \in BagToSet(payments) :
        \E i \in invoices : i.id = p.invoice_id /\
            \E b \in businesses : b.id = i.business_id /\ b.user_id = u}

\* db.query(Invoice).filter(Invoice.id == payment.invoice_id).first()
InvoiceOf(p) == {i \in invoices : i.id = p.invoice_id}

ReplaceRow(rows, old, new) == (rows \ {old}) \cup {new}

AddRow(bag, row) == bag (+) SetToBag({row})
RemoveRow(bag, row) == bag (-) SetToBag({row})

\* the sum of the amounts of the rows `rows` of `bag`, each as often as it occurs
RECURSIVE SumAmounts(_, _)
SumAmounts(rows, bag) ==
    IF rows = {} THEN 0
    ELSE LET p == CHOOSE x \in rows : TRUE
         IN p.amount * bag[p] + SumAmounts(rows \ {p}, bag)

----------------------------------------------------------------------------
(* Invoice numbers and invoice rows *)

RECURSIVE Digits(_)
Digits(n) == IF n < 10 THEN <<n>> ELSE Digits(n \div 10) \o <<n % 10>>

RECURSIVE ZeroPad(_, _)
ZeroPad(s, width) == IF Len(s) < width THEN ZeroPad(<<0>> \o s, width) ELSE s

NumberWidth == 5

\* f"{business.invoice_prefix}-{business.next_invoice_number:05d}"
FormatInvoiceNumber(prefix, n) ==
    [prefix |-> prefix, sep |-> "-", digits |-> ZeroPad(Digits(n), NumberWidth)]

\* InvoiceModel(...) as create_invoice builds it: a draft, nothing paid
NewInvoice(id, business_id, number, total, month) ==
    [id |-> id, business_id |-> business_id, invoice_number |-> number,
     created_at |-> month, status |-> "draft", total_amount |-> total,
     amount_paid |-> 0, amount_due |-> total, paid_at |-> Null]

\* BusinessModel(...) as create_business builds it (is_active: column default)
NewBusiness(id, user_id, prefix) ==
    [id |-> id, user_id |-> user_id, is_active |-> TRUE,
     invoice_prefix |-> prefix, next_invoice_number |-> 1]

----------------------------------------------------------------------------
(* Payment handlers: src/app/graphql/mutations/payment.py *)

\* adding the amount without ever stepping to paid
ApplyNeverPaid(i, amount) ==
    LET paid == i.amount_paid + amount
    IN [i EXCEPT !.amount_paid = paid, !.amount_due = i.total_amount - paid]

\* create_payment, lines 51-59: the invoice after a payment of `amount`
ApplyPayment(i, amount) ==
    LET paid == i.amount_paid + amount
        due == i.total_amount - paid
    IN [i EXCEPT !.amount_paid = paid,
                 !.amount_due = due,
                 !.status = IF due <= 0 THEN "paid" ELSE @,
                 !.paid_at = IF due <= 0 THEN "stamped" ELSE @]

\* update_payment, lines 126-134: the invoice after the amount changed
AmendPayment(i, old_amount, new_amount) ==
    LET paid == i.amount_paid - old_amount + new_amount
        due == i.total_amount - paid
    IN [i EXCEPT !.amount_paid = paid,
                 !.amount_due = due,
                 !.status = IF due <= 0 THEN "paid"
                            ELSE IF @ = "paid" THEN "sent" ELSE @,
                 !.paid_at = IF due <= 0 THEN "stamped"
                             ELSE IF i.status = "paid" THEN Null ELSE @]

\* removing the payment's amount without stepping back from paid
VoidKeepsPaid(i, amount) ==
    LET paid == i.amount_paid - amount
    IN [i EXCEPT !.amount_paid = paid, !.amount_due = i.total_amount - paid]

\* delete_payment, lines 178-183: the invoice after the payment is removed
VoidPayment(i, amount) ==
    LET paid == i.amount_paid - amount
    IN [i EXCEPT !.amount_paid = paid,
                 !.amount_due = i.total_amount - paid,
                 !.status = IF @ = "paid" THEN "sent" ELSE @,
                 !.paid_at = IF i.status = "paid" THEN Null ELSE @]

\* refund_payment, lines 217-219: the invoice after the refund
RefundInvoice(i, amount) ==
    LET paid == i.amount_paid - amount
    IN [i EXCEPT !.amount_paid = paid,
                 !.amount_due = i.total_amount - paid,
                 !.status = "refunded"]

create_payment(u, invoice_id, amount) ==
    /\ BagCardinality(payments) < MaxPayments
    /\ \E i \in OwnedInvoices(u, invoice_id) :
         /\ InRange(i.amount_paid + amount)
         /\ payments' = AddRow(payments, [invoice_id |-> invoice_id,
                                         amount |-> amount, status |-> "completed"])
         /\ invoices' = ReplaceRow(invoices, i, ApplyPayment(i, amount))
    /\ UNCHANGED <<now, user, subscription, businesses, reqVars, issued, ret, redis>>

update_payment(u, amount_in, status_in) ==
    /\ \E p \in OwnedPayments(u) :
         LET old_amount == p.amount
             q == [p EXCEPT !.amount = IF amount_in # None THEN amount_in[1] ELSE @,
                            !.status = IF status_in # None THEN status_in[1] ELSE @]
         IN /\ payments' = AddRow(RemoveRow(payments, p), q)
            /\ IF amount_in # None /\ q.amount # old_amount /\ InvoiceOf(p) # {}
               THEN \E i \in InvoiceOf(p) :
                      /\ InRange(i.amount_paid - old_amount + q.amount)
                      /\ invoices' = ReplaceRow(invoices, i,
                                        AmendPayment(i, old_amount, q.amount))
               ELSE UNCHANGED invoices
    /\ UNCHANGED <<now, user, subscription, businesses, reqVars, issued, ret, redis>>

delete_payment(u) ==
    /\ \E p \in OwnedPayments(u) :
         /\ IF InvoiceOf(p) # {}
            THEN \E i \in InvoiceOf(p) :
                   /\ InRange(i.amount_paid - p.amount)
                   /\ invoices' = ReplaceRow(invoices, i, VoidPayment(i, p.amount))
            ELSE UNCHANGED invoices
         /\ payments' = RemoveRow(payments, p)
    /\ UNCHANGED <<now, user, subscription, businesses, reqVars, issued, ret, redis>>

refund_payment(u) ==
    /\ \E p \in OwnedPayments(u) :
         /\ payments' = AddRow(RemoveRow(payments, p), [p EXCEPT !.status = "refunded"])
         /\ IF InvoiceOf(p) # {}
            THEN \E i \in InvoiceOf(p) :
                   /\ InRange(i.amount_paid - p.amount)
                   /\ invoices' = ReplaceRow(invoices, i, RefundInvoice(i, p.amount))
            ELSE UNCHANGED invoices
    /\ UNCHANGED <<now, user, subscription, businesses, reqVars, issued, ret, redis>>

----------------------------------------------------------------------------
(* Invoice handlers: src/app/graphql/mutations/invoice.py *)

\* update_invoice, lines 211-212 (due_date, notes and payment_instructions,
\* lines 213-218, are columns no modelled decision reads)
UpdateStatus(i, status_in) ==
    [i EXCEPT !.status = IF status_in # None THEN status_in[1] ELSE @]

\* send_invoice, lines 297-299
SendRow(i) == [i EXCEPT !.status = "sent"]

\* marking paid without settling amount_due
MarkPaidKeepsDue(i) ==
    [i EXCEPT !.status = "paid", !.amount_paid = i.total_amount, !.paid_at = "stamped"]

\* mark_invoice_as_paid, lines 322-326
MarkPaidRow(i) ==
    [i EXCEPT !.status = "paid", !.paid_at = "stamped",
              !.amount_paid = i.total_amount, !.amount_due = 0]

\* cancel_invoice, lines 349-351
CancelRow(i) == [i EXCEPT !.status = "cancelled"]

update_invoice(u, id, status_in) ==
    /\ \E i \in OwnedInvoices(u, id) :
         invoices' = ReplaceRow(invoices, i, UpdateStatus(i, status_in))
    /\ UNCHANGED <<now, user, subscription, businesses, payments, reqVars, issued, ret, redis>>

send_invoice(u, id) ==
    /\ \E i \in OwnedInvoices(u, id) :
         invoices' = ReplaceRow(invoices, i, SendRow(i))
    /\ UNCHANGED <<now, user, subscription, businesses, payments, reqVars, issued, ret, redis>>

mark_invoice_as_paid(u, id) ==
    /\ \E i \in OwnedInvoices(u, id) :
         invoices' = ReplaceRow(invoices, i, MarkPaidRow(i))
    /\ UNCHANGED <<now, user, subscription, businesses, payments, reqVars, issued, ret, redis>>

cancel_invoice(u, id) ==
    /\ \E i \in OwnedInvoices(u, id) :
         invoices' = ReplaceRow(invoices, i, CancelRow(i))
    /\ UNCHANGED <<now, user, subscription, businesses, payments, reqVars, issued, ret, redis>>

\* delete_invoice, lines 275-276; the payments relationship cascades
\* (src/app/db/models/invoice.py:83)
delete_invoice(u, id) ==
    /\ \E i \in OwnedInvoices(u, id) :
         /\ invoices' = invoices \ {i}
         /\ payments' = [p \in {q \in BagToSet(payments) : q.invoice_id # i.id}
                            |-> payments[p]]
    /\ UNCHANGED <<now, user, subscription, businesses, reqVars, issued, ret, redis>>

----------------------------------------------------------------------------
(* Billing service: src/app/services/billing_service.py *)

SubscriptionPlan == {"free", "starter", "pro", "enterprise"}

SubscriptionStatus == {"active", "trialing", "past_due", "canceled"}

\* float('inf'): above every count the model reaches
Inf == 999999

PLAN_LIMITS ==
    [free |-> [max_invoices_per_month |-> 5, max_businesses |-> 1,
               features |-> {"basic_pdf"}],
     starter |-> [max_invoices_per_month |-> 50, max_businesses |-> 2,
                  features |-> {"custom_branding", "reminders"}],
     pro |-> [max_invoices_per_month |-> Inf, max_businesses |-> 5,
              features |-> {"custom_branding", "reminders", "recurring_invoices",
                            "advanced_reporting"}],
     enterprise |-> [max_invoices_per_month |-> Inf, max_businesses |-> Inf,
                     features |-> {"custom_branding", "reminders", "recurring_invoices",
                                   "advanced_reporting", "audit_logs",
                                   "priority_support"}]]

FreeUser == [subscription_plan |-> "free", subscription_status |-> "active"]

\* `x or float('inf')` on a nullable Integer column: NULL and 0 are both falsy
OrInf(x) == IF x = None \/ x[1] = 0 THEN Inf ELSE x[1]

\* get_active_subscription: the user's subscriptions row, whatever its status
get_active_subscription(user_id) == subscription[user_id]

\* get_plan_limits, lines 57-61: the limits read off the plan row
PlanRowLimits(plan) ==
    [max_invoices_per_month |-> OrInf(plan.max_invoices_per_month),
     max_businesses |-> OrInf(plan.max_businesses),
     features |-> plan.features]

get_plan_limits(user_id) ==
    LET sub == get_active_subscription(user_id)
    IN IF sub # NoRow
       THEN PlanRowLimits(sub[1].plan)
       ELSE PLAN_LIMITS[user[user_id].subscription_plan]

\* the count without the created_at filter
CountEveryMonth(business_id) ==
    Cardinality({i \in invoices : i.business_id = business_id})

\* func.count(Invoice.id) filtered by business and created_at >= first_day_of_month
CountThisMonth(business_id) ==
    Cardinality({i \in invoices : i.business_id = business_id /\ i.created_at >= now})

\* can_create_invoice, lines 75-84: the status the quota check goes by
OwnerStatus(user_id) ==
    LET sub == get_active_subscription(user_id)
    IN IF sub # NoRow THEN sub[1].status ELSE user[user_id].subscription_status

\* can_create_invoice, lines 83-99, for an existing business of `user_id`
\* and `count` invoices of it created this month
WithinInvoiceQuota(user_id, count) ==
    IF OwnerStatus(user_id) \notin {"active", "trialing"} THEN FALSE
    ELSE LET limit == get_plan_limits(user_id).max_invoices_per_month
         IN IF limit = Inf THEN TRUE ELSE count < limit

can_create_invoice(business_id) ==
    IF \A b \in businesses : b.id # business_id THEN FALSE
    ELSE LET business == CHOOSE b \in businesses : b.id = business_id
         IN WithinInvoiceQuota(business.user_id, CountThisMonth(business_id))

\* func.count(BusinessProfile.id) filtered by owner and is_active
CountActiveBusinesses(user_id) ==
    Cardinality({b \in businesses : b.user_id = user_id /\ b.is_active})

can_create_business(user_id) ==
    LET limit == get_plan_limits(user_id).max_businesses
    IN IF limit = Inf THEN TRUE ELSE CountActiveBusinesses(user_id) < limit

has_feature(user_id, feature_name) ==
    feature_name \in get_plan_limits(user_id).features

----------------------------------------------------------------------------
(* Requests *)

MaxRequests == 3

Requests == 1..MaxRequests

IdleRequests ==
    /\ pc = [r \in Requests |-> "idle"]
    /\ session = [r \in Requests |-> NoRow]
    /\ result = [r \in Requests |-> NoRow]

----------------------------------------------------------------------------
(* SpecPay: one invoice of the owner's business, as create_invoice left   *)
(* it, and every payment and status operation on it, one request at a    *)
(* time.                                                                   *)

InitPay ==
    /\ now = 0
    /\ user = [u \in Users |-> FreeUser]
    /\ subscription = [u \in Users |-> NoRow]
    /\ businesses = {[NewBusiness(1, Owner, "INV") EXCEPT !.next_invoice_number = 2]}
    /\ \E t \in Totals :
         invoices = {NewInvoice(1, 1, FormatInvoiceNumber("INV", 1), t, 0)}
    /\ payments = EmptyBag
    /\ IdleRequests
    /\ issued = <<[business_id |-> 1, invoice_number |-> FormatInvoiceNumber("INV", 1),
                    month |-> 0]>>
    /\ ret = NoRow
    /\ redis = RedisAtStartup

NextPay ==
    \E u \in Users :
        \/ \E a \in Amounts : create_payment(u, 1, a)
        \/ \E a \in Optional(Amounts), st \in Optional(PaymentStatus) :
              update_payment(u, a, st)
        \/ delete_payment(u)
        \/ refund_payment(u)
        \/ \E st \in Optional(InvoiceStatus) : update_invoice(u, 1, st)
        \/ send_invoice(u, 1)
        \/ mark_invoice_as_paid(u, 1)
        \/ cancel_invoice(u, 1)

SpecPay == InitPay /\ [][NextPay]_vars

----------------------------------------------------------------------------
(* Claims on payment reconciliation and the status machine *)

SumCompleted(i) ==
    SumAmounts({p \in BagToSet(payments) :
                   p.invoice_id = i.id /\ p.status = "completed"}, payments)

\* C3: an invoice's amount_paid is the sum of the amounts of its existing
\* completed payments, and amount_due is total_amount minus that sum.
C3_PaidIsSumOfCompleted ==
    \A i \in invoices :
        /\ i.amount_paid = SumCompleted(i)
        /\ i.amount_due = i.total_amount - SumCompleted(i)

\* C4: amount_due = total_amount - amount_paid for every invoice, in every
\* reachable state.
C4_DueIsTotalMinusPaid ==
    \A i \in invoices : i.amount_due = i.total_amount - i.amount_paid

\* C4 witness: a sent invoice that a payment has partly paid
C4_Witness ==
    \E i \in invoices :
        /\ i.status = "sent"
        /\ i.amount_paid > 0
        /\ i.amount_due > 0
        /\ payments # EmptyBag

StatusRank(s) ==
    CASE s = "draft" -> 1 [] s = "sent" -> 2 [] s = "viewed" -> 3
      [] s = "paid" -> 4 [] OTHER -> 0

ForwardOnly(old, new) ==
    /\ (StatusRank(old) > 0 /\ StatusRank(new) > 0) => StatusRank(new) >= StatusRank(old)
    /\ (old = "paid" /\ new # "paid") => new = "refunded"
    /\ (new = "refunded" /\ old # "refunded") => old = "paid"
    /\ (new = "cancelled" /\ old # "cancelled") => old \in {"draft", "sent", "viewed"}

\* C10: no operation moves an invoice's status backward along draft, sent,
\* viewed, paid; paid is left only for refunded, refunded is entered only
\* from paid, cancelled only from draft, sent or viewed.
C10_NoBackwardTransition ==
    [][\A i \in invoices : \A j \in invoices' :
          i.id = j.id => ForwardOnly(i.status, j.status)]_vars

\* C11: once an invoice is cancelled or refunded, no user operation changes
\* its status, amount_paid or amount_due.
C11_TerminalIsImmutable ==
    [][\A i \in invoices : \A j \in invoices' :
          (i.id = j.id /\ i.status \in {"cancelled", "refunded"})
             => /\ j.status = i.status
                /\ j.amount_paid = i.amount_paid
                /\ j.amount_due = i.amount_due]_vars

----------------------------------------------------------------------------
(* SpecVoid: the payment handlers and the handlers that close an invoice, *)
(* one request at a time.  No handler of this specification sets the      *)
(* status sent but delete_payment, on a paid invoice.                      *)

NextVoid ==
    \E u \in Users :
        \/ \E a \in Amounts : create_payment(u, 1, a)
        \/ delete_payment(u)
        \/ refund_payment(u)
        \/ mark_invoice_as_paid(u, 1)
        \/ cancel_invoice(u, 1)

SpecVoid == InitPay /\ [][NextVoid]_vars

\* the invoice is paid, by its one payment, which covers the total
PaidBySolePayment(i, p) ==
    /\ payments = SetToBag({p})
    /\ p.invoice_id = i.id
    /\ p.status = "completed"
    /\ p.amount >= i.total_amount
    /\ i.status = "paid"
    /\ i.amount_paid = p.amount

\* C12: when an invoice became paid through a single payment covering its
\* total, delete_payment of that payment sets the status to sent, clears
\* paid_at, sets amount_paid to 0 and amount_due to the original total.
C12_VoidingSolePaymentReverts ==
    [][\A i \in invoices : \A p \in BagToSet(payments) :
          (PaidBySolePayment(i, p) /\ payments' = EmptyBag)
             => \A j \in invoices' :
                   j.id = i.id =>
                      /\ j.status = "sent"
                      /\ j.paid_at = Null
                      /\ j.amount_paid = 0
                      /\ j.amount_due = i.total_amount
                      /\ j.total_amount = i.total_amount]_vars

\* C12 witness: a sent invoice with nothing paid and no payment left; under
\* SpecVoid only delete_payment of a covering sole payment leads here
C12_Witness ==
    \E i \in invoices :
        /\ i.status = "sent"
        /\ i.paid_at = Null
        /\ i.amount_paid = 0
        /\ i.amount_due = i.total_amount
        /\ payments = EmptyBag

----------------------------------------------------------------------------
(* SpecQuota: the billing service's answers over a store drawn from       *)
(* bounded sets: one question is asked and its answer recorded in ret.    *)

MaxInvoices == 6
PlanLimit == 2

\* billing_plans rows a subscription may point at (NULL: unlimited)
PlanRows ==
    {[max_invoices_per_month |-> mi, max_businesses |-> mb,
      features |-> {"custom_branding"}] :
        mi \in {None, Some(0), Some(PlanLimit)},
        mb \in {None, Some(0), Some(PlanLimit)}}

SubscriptionRows ==
    {NoRow} \cup {Row([status |-> st, plan |-> pl]) :
                      st \in SubscriptionStatus, pl \in PlanRows}

UserRows ==
    {[subscription_plan |-> pt, subscription_status |-> st] :
        pt \in SubscriptionPlan, st \in SubscriptionStatus}

Features == {"basic_pdf", "custom_branding"}

\* invoices ids lo..hi of business b, created in month m
InvoicesCreated(lo, hi, b, prefix, m) ==
    {NewInvoice(k, b, FormatInvoiceNumber(prefix, k), 1, m) : k \in lo..hi}

InitQuota ==
    /\ now = 1
    /\ \E ur \in UserRows : user = [u \in Users |-> IF u = Owner THEN ur ELSE FreeUser]
    /\ \E sr \in SubscriptionRows :
         subscription = [u \in Users |-> IF u = Owner THEN sr ELSE NoRow]
    /\ \E a1 \in BOOLEAN, a2 \in BOOLEAN, more \in SUBSET {3} :
         businesses = {[NewBusiness(1, Owner, "INV") EXCEPT !.is_active = a1],
                       [NewBusiness(2, Owner, "INV") EXCEPT !.is_active = a2],
                       NewBusiness(4, "u2", "OTH")}
                      \cup {NewBusiness(b, Owner, "INV") : b \in more}
    /\ \E cur \in 0..MaxInvoices, old \in 0..1 :
         invoices = InvoicesCreated(1, cur, 1, "INV", 1)
                    \cup InvoicesCreated(cur + 1, cur + old, 1, "INV", 0)
                    \cup InvoicesCreated(cur + old + 1, cur + old + 1, 4, "OTH", 1)
    /\ payments = EmptyBag
    /\ IdleRequests
    /\ issued = <<>>
    /\ ret = NoRow
    /\ redis = RedisAtStartup

EvalCanCreateInvoice ==
    /\ ret = NoRow
    /\ \E b \in {1, MissingBusiness} :
         ret' = Row([fn |-> "can_create_invoice", arg |-> b,
                     value |-> can_create_invoice(b)])
    /\ UNCHANGED <<dbVars, reqVars, issued, redis>>

EvalGetPlanLimits ==
    /\ ret = NoRow
    /\ ret' = Row([fn |-> "get_plan_limits", arg |-> Owner,
                   value |-> get_plan_limits(Owner)])
    /\ UNCHANGED <<dbVars, reqVars, issued, redis>>

EvalCanCreateBusiness ==
    /\ ret = NoRow
    /\ ret' = Row([fn |-> "can_create_business", arg |-> Owner,
                   value |-> can_create_business(Owner)])
    /\ UNCHANGED <<dbVars, reqVars, issued, redis>>

EvalHasFeature ==
    /\ ret = NoRow
    /\ \E f \in Features :
         ret' = Row([fn |-> "has_feature", arg |-> f, value |-> has_feature(Owner, f)])
    /\ UNCHANGED <<dbVars, reqVars, issued, redis>>

NextQuota ==
    \/ EvalCanCreateInvoice
    \/ EvalGetPlanLimits
    \/ EvalCanCreateBusiness
    \/ EvalHasFeature

SpecQuota == InitQuota /\ [][NextQuota]_vars

----------------------------------------------------------------------------
(* Claims on the billing service *)

Asked(fn) == ret # NoRow /\ ret[1].fn = fn
Answer == ret[1].value
Argument == ret[1].arg

InvoicesOfMonth(b, m) == {i \in invoices : i.business_id = b /\ i.created_at = m}

FreeNoSubscription ==
    /\ subscription[Owner] = NoRow
    /\ user[Owner].subscription_plan = "free"
    /\ user[Owner].subscription_status \in {"active", "trialing"}

\* C7: for an existing business whose owner has no subscription row, is on
\* the free plan and is active or trialing, can_create_invoice is true
\* exactly when fewer than 5 of the business's invoices were created in the
\* current month; invoices of earlier months are not counted.
C7_FreeLimitIsFive ==
    (Asked("can_create_invoice") /\ Argument = 1 /\ FreeNoSubscription
        /\ \E b \in businesses : b.id = 1)
    => (Answer <=> Cardinality(InvoicesOfMonth(1, now)) < 5)

\* C7 witness: denied at five invoices of this month, one older invoice around
C7_Witness ==
    /\ Asked("can_create_invoice") /\ Argument = 1 /\ FreeNoSubscription
    /\ Cardinality(InvoicesOfMonth(1, now)) = 5
    /\ InvoicesOfMonth(1, now - 1) # {}
    /\ Answer = FALSE

SubscriptionInForce(user_id) ==
    /\ subscription[user_id] # NoRow
    /\ subscription[user_id][1].status \in {"active", "trialing"}

ClaimedLimits(user_id) ==
    IF SubscriptionInForce(user_id)
    THEN PlanRowLimits(subscription[user_id][1].plan)
    ELSE PLAN_LIMITS["free"]

\* C8: quota decisions use the subscription plan's limits only when a
\* subscription exists with status active or trialing; otherwise the static
\* free limits (5 invoices a month, 1 business, feature basic_pdf) apply.
C8_LimitsFollowSubscriptionInForce ==
    /\ Asked("get_plan_limits") => Answer = ClaimedLimits(Owner)
    /\ Asked("can_create_business") =>
          (Answer <=> (ClaimedLimits(Owner).max_businesses = Inf
                          \/ CountActiveBusinesses(Owner) < ClaimedLimits(Owner).max_businesses))
    /\ Asked("has_feature") => (Answer <=> Argument \in ClaimedLimits(Owner).features)

----------------------------------------------------------------------------
(* create_invoice as steps: src/app/graphql/mutations/invoice.py:13-187   *)
(*                                                                         *)
(* Each request has a Session of its own (get_db).  The statements that    *)
(* reach the store are, in order: the business row read by                 *)
(* can_create_invoice (billing_service.py:70), the count of the month's    *)
(* invoices (billing_service.py:94), the ownership query (invoice.py:26),  *)
(* and the UPDATE of the counter with the INSERT of the invoice at flush   *)
(* and commit (invoice.py:94, 131).  The Session keeps one object per      *)
(* primary key and does not overwrite the loaded attributes of an object   *)
(* it already holds when a later query returns its row: the                *)
(* next_invoice_number read at invoice.py:35 is the one loaded at          *)
(* billing_service.py:70, and the UPDATE writes that value plus one.       *)

LimitReached == "Monthly invoice limit reached"
BusinessNotFound == "Business not found"
IntegrityError == "IntegrityError"
NameError == "NameError"
AttributeError == "AttributeError"

\* the Python types a caller may hand in as invoice_date and due_date: the
\* handler calls .date() on them (invoice.py:73-74), which a datetime has and
\* a date (the type CreateInvoiceInput declares) has not
DateKinds == {"date", "datetime"}

BusinessRow(business_id) ==
    IF \E b \in businesses : b.id = business_id
    THEN Row(CHOOSE b \in businesses : b.id = business_id)
    ELSE NoRow

\* the total computed from the items, lines 38-65, one unit per request
RequestTotal == 1

\* invoice.py:22 entering can_create_invoice, billing_service.py:70-72
ci_load(r, u, business_id) ==
    /\ pc[r] = "idle"
    /\ LET business == BusinessRow(business_id)
       IN /\ session' = [session EXCEPT ![r] =
                            Row([caller |-> u, business_id |-> business_id,
                                 business |-> business])]
          /\ IF business = NoRow
             THEN /\ pc' = [pc EXCEPT ![r] = "done"]
                  /\ result' = [result EXCEPT ![r] = Row(LimitReached)]
             ELSE /\ pc' = [pc EXCEPT ![r] = "loaded"]
                  /\ UNCHANGED result
    /\ UNCHANGED <<dbVars, issued, ret, redis>>

\* billing_service.py:74-99 and invoice.py:22-23
ci_check(r) ==
    /\ pc[r] = "loaded"
    /\ LET ses == session[r][1]
           allowed == WithinInvoiceQuota(ses.business[1].user_id,
                                         CountThisMonth(ses.business_id))
       IN IF allowed
          THEN /\ pc' = [pc EXCEPT ![r] = "admitted"]
               /\ UNCHANGED result
          ELSE /\ pc' = [pc EXCEPT ![r] = "done"]
               /\ result' = [result EXCEPT ![r] = Row(LimitReached)]
    /\ UNCHANGED <<dbVars, session, issued, ret, redis>>

\* invoice.py:35-36: the number and the counter, from the object the Session holds
NextNumber(business) ==
    FormatInvoiceNumber(business.invoice_prefix, business.next_invoice_number)

IncrementCounter(business) ==
    [business EXCEPT !.next_invoice_number = @ + 1]

\* Invoice.invoice_number is unique=True (src/app/db/models/invoice.py:41)
NumberTaken(number) == \E i \in invoices : i.invoice_number = number

\* invoice.py:26-187: ownership, number, flush and commit, then the response
ci_commit(r) ==
    /\ pc[r] = "admitted"
    /\ pc' = [pc EXCEPT ![r] = "done"]
    /\ LET ses == session[r][1]
           held == ses.business[1]
           owned == {b \in businesses : b.id = ses.business_id /\ b.user_id = ses.caller}
           number == NextNumber(held)
           id == Len(issued) + 1
       IN \E kind \in DateKinds :
          IF owned = {}
          THEN /\ result' = [result EXCEPT ![r] = Row(BusinessNotFound)]
               /\ UNCHANGED <<businesses, invoices, issued>>
          ELSE IF kind = "date"
          THEN /\ result' = [result EXCEPT ![r] = Row(AttributeError)]
               /\ UNCHANGED <<businesses, invoices, issued>>
          ELSE IF NumberTaken(number)
          THEN /\ result' = [result EXCEPT ![r] = Row(IntegrityError)]
               /\ UNCHANGED <<businesses, invoices, issued>>
          ELSE /\ \E b \in owned :
                    businesses' = ReplaceRow(businesses, b,
                        [b EXCEPT !.next_invoice_number =
                                     IncrementCounter(held).next_invoice_number])
               /\ invoices' = invoices \cup
                    {NewInvoice(id, ses.business_id, number, RequestTotal, now)}
               /\ issued' = Append(issued, [business_id |-> ses.business_id,
                                            invoice_number |-> number, month |-> now])
               \* the response names Client and client, which invoice.py never binds
               /\ result' = [result EXCEPT ![r] = Row(NameError)]
    /\ UNCHANGED <<now, user, subscription, payments, session, ret, redis>>

\* the next request on the same connection
ci_next(r) ==
    /\ pc[r] = "done"
    /\ pc' = [pc EXCEPT ![r] = "idle"]
    /\ session' = [session EXCEPT ![r] = NoRow]
    /\ result' = [result EXCEPT ![r] = NoRow]
    /\ UNCHANGED <<dbVars, issued, ret, redis>>

\* utcnow() passes into the next calendar month
MaxMonth == 1

AdvanceMonth ==
    /\ now < MaxMonth
    /\ now' = now + 1
    /\ UNCHANGED <<user, subscription, businesses, invoices, payments, reqVars, issued, ret, redis>>

----------------------------------------------------------------------------
(* SpecSeq: create_invoice and delete_invoice on one business, one        *)
(* request at a time, over the months.                                     *)

MaxCreates == 7

Quiet == pc[1] \in {"idle", "done"}

UnlimitedBusinesses(mi) ==
    [max_invoices_per_month |-> mi, max_businesses |-> None,
     features |-> {"custom_branding"}]

InitSeq ==
    /\ now = 0
    /\ \E st \in {"active", "trialing", "canceled"} :
         user = [u \in Users |->
                    IF u = Owner
                    THEN [subscription_plan |-> "free", subscription_status |-> st]
                    ELSE FreeUser]
    /\ \E sr \in {NoRow} \cup
                 {Row([status |-> st, plan |-> UnlimitedBusinesses(mi)]) :
                     st \in {"active", "past_due"},
                     mi \in {None, Some(0), Some(PlanLimit)}} :
         subscription = [u \in Users |-> IF u = Owner THEN sr ELSE NoRow]
    /\ businesses = {NewBusiness(1, Owner, "INV")}
    /\ invoices = {}
    /\ payments = EmptyBag
    /\ IdleRequests
    /\ issued = <<>>
    /\ ret = NoRow
    /\ redis = RedisAtStartup

NextSeq ==
    \/ \E u \in Users, b \in {1, MissingBusiness} :
          Len(issued) < MaxCreates /\ ci_load(1, u, b)
    \/ ci_check(1)
    \/ ci_commit(1)
    \/ ci_next(1)
    \/ \E u \in Users, id \in 1..MaxCreates : Quiet /\ delete_invoice(u, id)
    \/ Quiet /\ AdvanceMonth

SpecSeq == InitSeq /\ [][NextSeq]_vars

\* the invoices create_invoice committed for business b in month m
CreatedInMonth(b, m) ==
    Cardinality({k \in 1..Len(issued) :
                    issued[k].business_id = b /\ issued[k].month = m})

\* the owner's status admits invoices and the plan's monthly limit is finite
FiniteInvoiceLimit(b) ==
    /\ OwnerStatus(b.user_id) \in {"active", "trialing"}
    /\ get_plan_limits(b.user_id).max_invoices_per_month # Inf

InvoiceLimit(b) == get_plan_limits(b.user_id).max_invoices_per_month

\* C5: with an active or trialing owner and a finite monthly limit L, the
\* create_invoice calls that succeeded in one calendar month never number
\* more than L, whatever create_invoice and delete_invoice calls were made.
C5_CreationsWithinLimit ==
    \A b \in businesses : \A m \in 0..now :
        FiniteInvoiceLimit(b) => CreatedInMonth(b.id, m) <= InvoiceLimit(b)

\* what the row count of can_create_invoice does bound: the invoices of the
\* business that still exist with created_at in one calendar month
ExistingWithinLimit ==
    \A b \in businesses : \A m \in 0..now :
        FiniteInvoiceLimit(b) =>
            Cardinality(InvoicesOfMonth(b.id, m)) <= InvoiceLimit(b)

\* the limit is reached again after a deletion made room
RefilledAfterDelete ==
    \E b \in businesses :
        /\ FiniteInvoiceLimit(b)
        /\ Cardinality(InvoicesOfMonth(b.id, now)) = InvoiceLimit(b)
        /\ CreatedInMonth(b.id, now) > InvoiceLimit(b)

\* what create_invoice tells the caller when it raises
ErrorResults == {LimitReached, BusinessNotFound, IntegrityError, AttributeError, NameError}

\* C16: whenever create_invoice reports an error, no invoice row and no
\* increment of next_invoice_number has been committed; and a committed
\* invoice is always reported as success.
C16_ErrorMeansNothingCommitted ==
    [][\A r \in Requests :
          (result'[r] # result[r] /\ result'[r] # NoRow)
             => /\ result'[r][1] \in ErrorResults
                   => (invoices' = invoices /\ businesses' = businesses)
                /\ invoices' # invoices => result'[r][1] \notin ErrorResults]_vars

----------------------------------------------------------------------------
(* SpecInv: create_invoice requests for one business running concurrently *)
(* against the shared store, with delete_invoice.                          *)

InitInv ==
    /\ now = 0
    /\ user = [u \in Users |-> FreeUser]
    /\ \E l \in 1..PlanLimit :
         subscription = [u \in Users |->
            IF u = Owner
            THEN Row([status |-> "active", plan |-> UnlimitedBusinesses(Some(l))])
            ELSE NoRow]
    /\ businesses = {NewBusiness(1, Owner, "INV")}
    /\ invoices = {}
    /\ payments = EmptyBag
    /\ IdleRequests
    /\ issued = <<>>
    /\ ret = NoRow
    /\ redis = RedisAtStartup

NextInv ==
    \/ \E r \in Requests, u \in Users : ci_load(r, u, 1)
    \/ \E r \in Requests : ci_check(r)
    \/ \E r \in Requests : ci_commit(r)
    \/ \E u \in Users, id \in 1..MaxRequests : delete_invoice(u, id)

SpecInv == InitInv /\ [][NextInv]_vars

\* C1: concurrent create_invoice requests for one business all succeed with
\* distinct numbers: a number collision is never surfaced to a caller.
C1_NoCollisionSurfaced ==
    /\ \A r \in Requests : result[r] # Row(IntegrityError)
    /\ \A i \in invoices : \A j \in invoices :
          (i.business_id = j.business_id /\ i.invoice_number = j.invoice_number)
             => i.id = j.id

NeverIssued(i) ==
    \A k \in 1..Len(issued) :
        ~(issued[k].business_id = i.business_id
          /\ issued[k].invoice_number = i.invoice_number)

\* C2: invoice numbers are unique per business and issued in increasing
\* order: next_invoice_number never decreases and a number issued once is
\* never issued again.
C2_NumbersIncreaseNeverReissued ==
    [][/\ \A b \in businesses : \A c \in businesses' :
             b.id = c.id => c.next_invoice_number >= b.next_invoice_number
       /\ \A i \in invoices' \ invoices : NeverIssued(i)
       /\ \A i \in invoices : \A j \in invoices :
             (i.business_id = j.business_id /\ i.invoice_number = j.invoice_number)
                => i.id = j.id]_vars

\* C6: under concurrent create_invoice requests the invoices of a business
\* created in the current month never number more than the plan's
\* max_invoices_per_month.
C6_ConcurrentWithinLimit ==
    \A b \in businesses :
        FiniteInvoiceLimit(b) =>
            Cardinality(InvoicesOfMonth(b.id, now)) <= InvoiceLimit(b)

----------------------------------------------------------------------------
(* Business mutations: src/app/graphql/mutations/business.py *)

MaxBusinesses == 3

BusinessIds == 1..MaxBusinesses

\* create_business: the quota check, then a row under a fresh uuid
create_business(u, id) ==
    /\ can_create_business(u)
    /\ \A b \in businesses : b.id # id
    /\ businesses' = businesses \cup {NewBusiness(id, u, "INV")}
    /\ UNCHANGED <<now, user, subscription, invoices, payments, reqVars, issued, ret, redis>>

\* update_business, lines 120-121
UpdateActive(b, is_active_in) ==
    IF is_active_in # None THEN [b EXCEPT !.is_active = is_active_in[1]] ELSE b

update_business(u, id, is_active_in) ==
    /\ \E b \in businesses :
         /\ b.id = id
         /\ b.user_id = u
         /\ businesses' = ReplaceRow(businesses, b, UpdateActive(b, is_active_in))
    /\ UNCHANGED <<now, user, subscription, invoices, payments, reqVars, issued, ret, redis>>

\* delete_business; the invoices relationship has no cascade and
\* invoices.business_id is NOT NULL, so a business with invoices stays
delete_business(u, id) ==
    /\ \E b \in businesses :
         /\ b.id = id
         /\ b.user_id = u
         /\ \A i \in invoices : i.business_id # b.id
         /\ businesses' = businesses \ {b}
    /\ UNCHANGED <<now, user, subscription, invoices, payments, reqVars, issued, ret, redis>>

----------------------------------------------------------------------------
(* SpecBiz: the business profiles of two users under create_business,     *)
(* update_business and delete_business, the plans unchanged.               *)

LimitedBusinesses(mb) ==
    [max_invoices_per_month |-> None, max_businesses |-> mb,
     features |-> {"custom_branding"}]

InitBiz ==
    /\ now = 0
    /\ \E pl \in {"free", "starter"} :
         user = [u \in Users |->
                    IF u = Owner
                    THEN [subscription_plan |-> pl, subscription_status |-> "active"]
                    ELSE FreeUser]
    /\ \E sr \in {NoRow, Row([status |-> "active",
                               plan |-> LimitedBusinesses(Some(PlanLimit))])} :
         subscription = [u \in Users |-> IF u = Owner THEN sr ELSE NoRow]
    /\ businesses = {}
    /\ invoices = {}
    /\ payments = EmptyBag
    /\ IdleRequests
    /\ issued = <<>>
    /\ ret = NoRow
    /\ redis = RedisAtStartup

NextBiz ==
    \/ \E u \in Users, id \in BusinessIds : create_business(u, id)
    \/ \E u \in Users, id \in BusinessIds, a \in Optional(BOOLEAN) :
          update_business(u, id, a)
    \/ \E u \in Users, id \in BusinessIds : delete_business(u, id)

SpecBiz == InitBiz /\ [][NextBiz]_vars

\* C9: a user whose plan has a finite max_businesses M never has more than
\* M business profiles with is_active = true, whatever create_business,
\* update_business and delete_business calls were made.
C9_ActiveWithinLimit ==
    \A u \in Users :
        get_plan_limits(u).max_businesses # Inf =>
            CountActiveBusinesses(u) <= get_plan_limits(u).max_businesses

----------------------------------------------------------------------------
(* create_payment as steps: src/app/graphql/mutations/payment.py:13-77    *)
(*                                                                         *)
(* The handler reads the invoice row (payment.py:22-25), adds to the       *)
(* amount_paid it read and writes the columns it assigned, with the        *)
(* payment row, at db.commit() (payment.py:61).  Nothing locks the row     *)
(* between the read and the write.                                         *)

InvoiceNotFound == "Invoice not found"
PaymentCreated == "Payment"

\* payment.py:22-28
cp_load(r, u, invoice_id, amount) ==
    /\ pc[r] = "idle"
    /\ IF OwnedInvoices(u, invoice_id) = {}
       THEN /\ pc' = [pc EXCEPT ![r] = "done"]
            /\ result' = [result EXCEPT ![r] = Row(InvoiceNotFound)]
            /\ UNCHANGED session
       ELSE /\ \E i \in OwnedInvoices(u, invoice_id) :
                 session' = [session EXCEPT ![r] =
                                Row([caller |-> u, invoice |-> i, amount |-> amount])]
            /\ pc' = [pc EXCEPT ![r] = "paying"]
            /\ UNCHANGED result
    /\ UNCHANGED <<dbVars, issued, ret, redis>>

\* the UPDATE of the columns create_payment assigned (payment.py:52-59),
\* computed from the row the Session holds, on the row the store holds
WritePayment(stored, held, amount) ==
    LET after == ApplyPayment(held, amount)
    IN [stored EXCEPT !.amount_paid = after.amount_paid,
                      !.amount_due = after.amount_due,
                      !.status = IF after.amount_due <= 0 THEN "paid" ELSE @,
                      !.paid_at = IF after.amount_due <= 0 THEN "stamped" ELSE @]

\* payment.py:33-77
cp_commit(r) ==
    /\ pc[r] = "paying"
    /\ LET ses == session[r][1]
       IN /\ \E stored \in invoices :
               /\ stored.id = ses.invoice.id
               /\ invoices' = ReplaceRow(invoices, stored,
                                  WritePayment(stored, ses.invoice, ses.amount))
          /\ payments' = AddRow(payments, [invoice_id |-> ses.invoice.id,
                                          amount |-> ses.amount, status |-> "completed"])
    /\ pc' = [pc EXCEPT ![r] = "done"]
    /\ result' = [result EXCEPT ![r] = Row(PaymentCreated)]
    /\ UNCHANGED <<now, user, subscription, businesses, session, issued, ret, redis>>

----------------------------------------------------------------------------
(* SpecRace: create_payment requests on one invoice running concurrently. *)

NextRace ==
    \/ \E r \in Requests, u \in Users, a \in Amounts : cp_load(r, u, 1, a)
    \/ \E r \in Requests : cp_commit(r)

SpecRace == InitPay /\ [][NextRace]_vars

\* C17: after concurrent create_payment requests for one invoice have
\* committed, amount_paid has grown by the sum of their amounts and
\* amount_due is total_amount minus amount_paid: no update is lost.
C17_NoLostPayment ==
    (\A r \in Requests : pc[r] # "paying")
       => \A i \in invoices :
             /\ i.amount_paid = SumCompleted(i)
             /\ i.amount_due = i.total_amount - i.amount_paid

----------------------------------------------------------------------------
(* create_invoice with its input: src/app/graphql/mutations/invoice.py    *)
(* lines 13-187 as one step, one request at a time.                        *)
(*                                                                         *)
(* Money is a float in the code.  Here quantities, prices, rates and       *)
(* discount values are whole numbers and every amount create_invoice       *)
(* computes is kept in ten-thousandths, which holds the two divisions by   *)
(* 100 (a percentage discount, then a tax rate) exactly.                   *)

PercentBase == 100

Scale == PercentBase * PercentBase

\* the clients table; no handler modelled here writes it
clients ==
    {[id |-> 1, business_id |-> 1], [id |-> 2, business_id |-> 2]}

\* `if x.discount_type and x.discount_value`: None and 0 are both falsy
HasDiscount(x) == x.discount_type # None /\ x.discount_value # 0

\* invoice.py:43, 98
ItemSubtotal(item) == item.quantity * item.unit_price * Scale

\* invoice.py:44-50, 99-105
ItemDiscount(item) ==
    IF ~HasDiscount(item) THEN 0
    ELSE IF item.discount_type[1] = "percentage"
         THEN (ItemSubtotal(item) * item.discount_value) \div PercentBase
         ELSE item.discount_value * Scale

\* invoice.py:52-53, 107-108
ItemTax(item) ==
    ((ItemSubtotal(item) - ItemDiscount(item)) * item.tax_rate) \div PercentBase

\* invoice.py:39, 55: subtotal += item_subtotal over input.items
RECURSIVE Subtotal(_)
Subtotal(items) ==
    IF items = <<>> THEN 0 ELSE ItemSubtotal(Head(items)) + Subtotal(Tail(items))

\* invoice.py:40, 56: tax_amount += item_tax over input.items
RECURSIVE TaxAmount(_)
TaxAmount(items) ==
    IF items = <<>> THEN 0 ELSE ItemTax(Head(items)) + TaxAmount(Tail(items))

\* invoice.py:58-63
DiscountAmount(input, subtotal) ==
    IF ~HasDiscount(input) THEN 0
    ELSE IF input.discount_type[1] = "percentage"
         THEN (subtotal * input.discount_value) \div PercentBase
         ELSE input.discount_value * Scale

\* the total without the shipping amount
TotalWithoutShipping(subtotal, discount_amount, tax_amount, shipping_amount) ==
    subtotal - discount_amount + tax_amount

\* invoice.py:65
TotalAmount(subtotal, discount_amount, tax_amount, shipping_amount) ==
    subtotal - discount_amount + tax_amount + shipping_amount

\* invoice.py:111-128: the invoice_items row of the idx-th item
InvoiceItemModel(item, idx) ==
    [quantity |-> item.quantity, unit_price |-> item.unit_price,
     tax_rate |-> item.tax_rate, tax_amount |-> ItemTax(item),
     discount_amount |-> ItemDiscount(item),
     line_total |-> ItemSubtotal(item) - ItemDiscount(item) + ItemTax(item),
     sort_order |-> idx - 1]

\* invoice.py:67-91 with the items of lines 97-129
InvoiceModel(id, business_id, number, input, month) ==
    LET subtotal == Subtotal(input.items)
        tax_amount == TaxAmount(input.items)
        discount_amount == DiscountAmount(input, subtotal)
        shipping_amount == input.shipping_amount * Scale
        total_amount == TotalAmount(subtotal, discount_amount, tax_amount,
                                    shipping_amount)
    IN NewInvoice(id, business_id, number, total_amount, month) @@
       [client_id |-> input.client_id,
        invoice_date |-> input.invoice_date.day,
        due_date |-> input.due_date.day,
        subtotal |-> subtotal,
        discount_type |-> input.discount_type,
        discount_value |-> input.discount_value,
        discount_amount |-> discount_amount,
        tax_amount |-> tax_amount,
        shipping_amount |-> shipping_amount,
        items |-> [k \in 1..Len(input.items) |->
                      InvoiceItemModel(input.items[k], k)]]

\* invoices.client_id references clients.id (src/app/db/models/invoice.py:39)
ClientExists(client_id) == \E c \in clients : c.id = client_id

create_invoice(r, u, input) ==
    /\ pc[r] = "idle"
    /\ pc' = [pc EXCEPT ![r] = "done"]
    /\ LET owned == {b \in businesses : b.id = input.business_id /\ b.user_id = u}
           id == Len(issued) + 1
       IN IF ~can_create_invoice(input.business_id)
          THEN /\ result' = [result EXCEPT ![r] = Row(LimitReached)]
               /\ UNCHANGED <<businesses, invoices, issued>>
          ELSE IF owned = {}
          THEN /\ result' = [result EXCEPT ![r] = Row(BusinessNotFound)]
               /\ UNCHANGED <<businesses, invoices, issued>>
          ELSE IF input.invoice_date.kind = "date" \/ input.due_date.kind = "date"
          THEN /\ result' = [result EXCEPT ![r] = Row(AttributeError)]
               /\ UNCHANGED <<businesses, invoices, issued>>
          ELSE \E b \in owned :
                 LET number == NextNumber(b)
                 IN IF NumberTaken(number) \/ ~ClientExists(input.client_id)
                    THEN /\ result' = [result EXCEPT ![r] = Row(IntegrityError)]
                         /\ UNCHANGED <<businesses, invoices, issued>>
                    ELSE /\ businesses' = ReplaceRow(businesses, b, IncrementCounter(b))
                         /\ invoices' = invoices \cup
                               {InvoiceModel(id, b.id, number, input, now)}
                         /\ issued' = Append(issued,
                               [business_id |-> b.id, invoice_number |-> number,
                                month |-> now])
                         /\ result' = [result EXCEPT ![r] = Row(NameError)]
    /\ UNCHANGED <<now, user, subscription, payments, session, ret, redis>>

----------------------------------------------------------------------------
(* SpecCreate: one create_invoice that persists, over its inputs, and the *)
(* invoice and payment handlers on the invoice it left.                    *)

MaxQuantity == 2

ItemDiscounts ==
    {[t |-> None, v |-> 0], [t |-> Some("percentage"), v |-> 50]}

DocumentDiscounts ==
    ItemDiscounts \cup {[t |-> Some("fixed"), v |-> 1], [t |-> Some("fixed"), v |-> 0]}

ItemInputs ==
    {[quantity |-> q, unit_price |-> 2, tax_rate |-> t,
      discount_type |-> d.t, discount_value |-> d.v] :
        q \in 1..MaxQuantity, t \in {0, 10}, d \in ItemDiscounts}

ItemLists ==
    {<<>>} \cup {<<a>> : a \in ItemInputs} \cup {<<a, b>> : a \in ItemInputs, b \in ItemInputs}

DateInputs(days) == {[kind |-> k, day |-> d] : k \in DateKinds, d \in days}

CreateInvoiceInputs ==
    {[business_id |-> b, client_id |-> c, invoice_date |-> id, due_date |-> dd,
      items |-> its, discount_type |-> d.t, discount_value |-> d.v,
      shipping_amount |-> sh] :
        b \in {1, MissingBusiness}, c \in {1, 2, 3},
        id \in DateInputs({1}), dd \in DateInputs({0, 1}),
        its \in ItemLists, d \in DocumentDiscounts, sh \in {0, 1}}

InitCreate ==
    /\ now = 0
    /\ user = [u \in Users |-> FreeUser]
    /\ subscription = [u \in Users |-> NoRow]
    /\ businesses = {NewBusiness(1, Owner, "INV"), NewBusiness(2, "u2", "OTH")}
    /\ invoices = {}
    /\ payments = EmptyBag
    /\ IdleRequests
    /\ issued = <<>>
    /\ ret = NoRow
    /\ redis = RedisAtStartup

NextCreate ==
    \/ /\ pc[1] = "idle"
       /\ \E u \in Users, input \in CreateInvoiceInputs : create_invoice(1, u, input)
    \/ \E u \in Users : send_invoice(u, 1)
    \/ \E u \in Users : mark_invoice_as_paid(u, 1)
    \/ \E u \in Users : update_invoice(u, 1, Some("viewed"))
    \/ \E u \in Users : create_payment(u, 1, 1)
    \/ \E u \in Users : delete_payment(u)
    \/ \E u \in Users : refund_payment(u)

SpecCreate == InitCreate /\ [][NextCreate]_vars

\* the sum of quantity x unit_price over the stored items
RECURSIVE SumOfLines(_)
SumOfLines(items) ==
    IF items = <<>> THEN 0
    ELSE Head(items).quantity * Head(items).unit_price * Scale + SumOfLines(Tail(items))

\* the sum of the stored per-item tax amounts
RECURSIVE SumOfItemTax(_)
SumOfItemTax(items) ==
    IF items = <<>> THEN 0 ELSE Head(items).tax_amount + SumOfItemTax(Tail(items))

ClaimedDiscount(i) ==
    IF i.discount_type = None THEN 0
    ELSE IF i.discount_type[1] = "percentage"
         THEN (i.subtotal * i.discount_value) \div PercentBase
         ELSE i.discount_value * Scale

\* C18: every invoice persisted by create_invoice has total_amount =
\* subtotal - discount_amount + tax_amount + shipping_amount, with subtotal
\* the sum of quantity x unit_price over its items, tax_amount the sum of the
\* per-item tax amounts and discount_amount following the document discount;
\* the equality still holds after later invoice and payment operations.
C18_TotalIsSumOfParts ==
    \A i \in invoices :
        /\ i.subtotal = SumOfLines(i.items)
        /\ i.tax_amount = SumOfItemTax(i.items)
        /\ i.discount_amount = ClaimedDiscount(i)
        /\ i.total_amount =
              i.subtotal - i.discount_amount + i.tax_amount + i.shipping_amount

\* C18 witness: two items, tax, a document discount and shipping, on an
\* invoice that has since been sent or paid and has a payment
C18_Witness ==
    \E i \in invoices :
        /\ Len(i.items) = 2
        /\ i.tax_amount > 0
        /\ i.discount_amount > 0
        /\ i.shipping_amount > 0
        /\ i.status # "draft"
        /\ payments # EmptyBag

\* C19: no invoice exists with due_date before invoice_date as a result of
\* create_invoice.
C19_DueNotBeforeInvoiceDate ==
    \A i \in invoices : i.due_date >= i.invoice_date

\* C20: the client of every invoice belongs to the invoice's own business.
C20_ClientOfOwnBusiness ==
    \A i \in invoices :
        \E c \in clients : c.id = i.client_id /\ c.business_id = i.business_id


----------------------------------------------------------------------------
(* Python values, as far as their type matters to the cache: the JSON    *)
(* written by json.dumps and what json.loads, parse_iso_dates and the    *)
(* Invoice constructor make of it (src/app/graphql/queries/invoice.py).  *)

TypeError == "TypeError"
ConnectionError == "ConnectionError"

PyNone == [type |-> "NoneType", value |-> <<>>]
PyStr(text) == [type |-> "str", value |-> text]
PyFloat(x) == [type |-> "float", value |-> <<x>>]
PyDate(d) == [type |-> "date", value |-> <<d>>]
PyDatetime(d, t) == [type |-> "datetime", value |-> <<d, t>>]
PyEnum(class, v) == [type |-> class, value |-> <<v>>]

EnumClasses == {"InvoiceStatus", "DiscountType", "ClientStatus", "ClientType"}

\* date.isoformat() is YYYY-MM-DD, datetime.isoformat() puts a "T" between
\* the date and the time
isoformat(obj) ==
    IF obj.type = "datetime" THEN <<obj.value[1], "T", obj.value[2]>>
    ELSE obj.value

\* date.fromisoformat / datetime.fromisoformat of a text isoformat() wrote
date_fromisoformat(text) == PyDate(text[1])
datetime_fromisoformat(text) == PyDatetime(text[1], text[3])

\* json_serial: what json.dumps calls for a value it cannot serialise
json_serial(obj) ==
    IF obj.type \in {"datetime", "date"} THEN PyStr(isoformat(obj))
    ELSE IF obj.type \in EnumClasses THEN PyStr(obj.value)
    ELSE TypeError

\* json.dumps(value, default=json_serial) of one field value: JSON null,
\* a JSON number, or a JSON string. The enum classes of the columns derive
\* from str (src/app/db/models/invoice.py:8-26), so json.dumps writes a
\* member as the string it is and asks json_serial only for the dates.
json_dumps_value(v) ==
    LET plain == IF v.type \in {"NoneType", "str", "float"} THEN v
                 ELSE IF v.type \in EnumClasses THEN PyStr(v.value)
                 ELSE json_serial(v)
    IN IF plain.type = "NoneType" THEN [json |-> "null", text |-> <<>>]
       ELSE IF plain.type = "float" THEN [json |-> "number", text |-> plain.value]
       ELSE [json |-> "string", text |-> plain.value]

\* json.loads of one JSON value
json_loads_value(j) ==
    IF j.json = "null" THEN PyNone
    ELSE IF j.json = "number" THEN [type |-> "float", value |-> j.text]
    ELSE PyStr(j.text)

\* json.dumps([inv.__dict__ for inv in invoices_typed_list], default=json_serial)
json_dumps(list) ==
    [k \in 1..Len(list) |->
        [f \in DOMAIN list[k] |-> json_dumps_value(list[k][f])]]

\* json.loads(cached_data): a list of dicts
json_loads(text) ==
    [k \in 1..Len(text) |->
        [f \in DOMAIN text[k] |-> json_loads_value(text[k][f])]]

date_fields == {"invoice_date", "due_date", "sent_at", "viewed_at",
                "paid_at", "cancelled_at", "created_at", "updated_at"}

\* `'T' in value`
HasT(text) == \E k \in 1..Len(text) : text[k] = "T"

\* parse_iso_dates, for one dict: a non-empty str in a date field becomes
\* a datetime if it holds a "T", a date if not; nothing else is touched
ParseItem(item) ==
    [f \in DOMAIN item |->
        IF f \in date_fields /\ item[f].type = "str" /\ item[f].value # <<>>
        THEN IF HasT(item[f].value) THEN datetime_fromisoformat(item[f].value)
             ELSE date_fromisoformat(item[f].value)
        ELSE item[f]]

parse_iso_dates(data_list) ==
    [k \in 1..Len(data_list) |-> ParseItem(data_list[k])]

\* the fields of the strawberry type Invoice (src/app/graphql/types/invoice.py),
\* those the model carries
InvoiceFields == {"id", "business_id", "client_id", "status", "invoice_date",
                  "due_date", "discount_type", "total_amount", "amount_paid",
                  "amount_due", "paid_at", "created_at"}

\* Invoice(**kwargs): the generated constructor takes the declared fields,
\* stores each value as given, and raises TypeError for any other keyword
Accepted(kwargs) == DOMAIN kwargs \subseteq InvoiceFields

InvoiceType(kwargs) == IF Accepted(kwargs) THEN kwargs ELSE TypeError

\* the cache-hit branch: json.loads, parse_iso_dates, Invoice(**data)
Rebuild(text) ==
    LET data_list_parsed == parse_iso_dates(json_loads(text))
    IN [k \in 1..Len(data_list_parsed) |-> InvoiceType(data_list_parsed[k])]


----------------------------------------------------------------------------
(* The invoices query and its cache:                                      *)
(* src/app/graphql/queries/invoice.py, lines 155-284.                     *)

DefaultLimit == 10

\* a key that leaves the user out
CacheKeyWithoutUser(u, q) ==
    [user |-> "", business_id |-> q.business_id, client_id |-> q.client_id,
     status |-> q.status, skip |-> q.skip, limit |-> q.limit]

\* f"user:{user.id}:invoices:{business_id=}:{client_id=}:{status=}:{skip=}:{limit=}"
CacheKey(u, q) ==
    [user |-> u, business_id |-> q.business_id, client_id |-> q.client_id,
     status |-> q.status, skip |-> q.skip, limit |-> q.limit]

\* redis_client.getex(cache_key): the stored text, or None
Cached(key) ==
    IF \E e \in redis.store : e.key = key
    THEN Some((CHOOSE e \in redis.store : e.key = key).text)
    ELSE None

\* redis_client.setex(cache_key, 300, json_data)
Setex(key, text) ==
    {e \in redis.store : e.key # key} \cup {[key |-> key, text |-> text]}

\* the filters of lines 194-205: the caller's invoices, narrowed by each
\* argument that was given
Filtered(u, q) ==
    {i \in invoices :
        /\ \E b \in businesses : b.id = i.business_id /\ b.user_id = u
        /\ q.business_id # None => i.business_id = q.business_id[1]
        /\ q.client_id # None => i.client_id = q.client_id[1]
        /\ q.status # None => i.status = q.status[1]}

\* order_by(created_at.desc()): ids are given in the order of creation
RECURSIVE NewestFirst(_)
NewestFirst(rows) ==
    IF rows = {} THEN <<>>
    ELSE LET newest == CHOOSE i \in rows : \A j \in rows : j.id <= i.id
         IN <<newest>> \o NewestFirst(rows \ {newest})

\* .offset(skip).limit(limit).all()
Page(seq, skip, limit) ==
    SubSeq(seq, skip + 1, IF skip + limit < Len(seq) THEN skip + limit ELSE Len(seq))

\* lines 194-207: the rows the database query returns
Listing(u, q) == Page(NewestFirst(Filtered(u, q)), q.skip, q.limit)

\* get_client_from_map: the Client of the invoice, or None
get_client_from_map(client_id) ==
    IF ClientExists(client_id)
    THEN [type |-> "Client", value |-> <<ToString(client_id)>>]
    ELSE PyNone

\* lines 244-276: Invoice(id=..., client=..., status=inv.status, ...) for one
\* row. The columns come typed from the database: Enum columns as enum
\* members, Date as date, DateTime as datetime. Invoice declares no field
\* `client`, so the constructor raises TypeError.
InvoiceKwargs(inv) ==
      [id |-> PyStr(<<ToString(inv.id)>>),
       business_id |-> PyStr(<<ToString(inv.business_id)>>),
       client_id |-> PyStr(<<ToString(inv.client_id)>>),
       client |-> get_client_from_map(inv.client_id),
       status |-> PyEnum("InvoiceStatus", inv.status),
       invoice_date |-> PyDate(ToString(inv.invoice_date)),
       due_date |-> PyDate(ToString(inv.due_date)),
       discount_type |-> IF inv.discount_type = None THEN PyNone
                         ELSE PyEnum("DiscountType", inv.discount_type[1]),
       total_amount |-> PyFloat(inv.total_amount),
       amount_paid |-> PyFloat(inv.amount_paid),
       amount_due |-> PyFloat(inv.amount_due),
       paid_at |-> IF inv.paid_at = Null THEN PyNone
                   ELSE PyDatetime(inv.paid_at, "00:00:00"),
       created_at |-> PyDatetime(ToString(inv.created_at), "00:00:00")]

TypedInvoice(inv) == InvoiceType(InvoiceKwargs(inv))

\* what the query answers: a list, or the exception that reached the caller
Returned(list, source) == [error |-> "", value |-> list, source |-> source]
Raised(error) == [error |-> error, value |-> <<>>, source |-> ""]

\* the uncached path, lines 194-276: the typed list, or the exception
Uncached(u, q) ==
    LET rows == Listing(u, q)
    IN IF rows = <<>> THEN Returned(<<>>, "database")
       ELSE IF \E k \in 1..Len(rows) : ~Accepted(InvoiceKwargs(rows[k]))
       THEN Raised(TypeError)
       ELSE Returned([k \in 1..Len(rows) |-> TypedInvoice(rows[k])], "database")

\* InvoiceQuery.invoices, the whole resolver. `alive` is whether the cache
\* store still answers when setex is sent. No call to the store is guarded:
\* an exception of getex or setex reaches the caller.
InvoiceQuery_invoices(r, u, q, alive) ==
    /\ pc' = [pc EXCEPT ![r] = "done"]
    /\ LET key == CacheKey(u, q)
       IN IF ~redis.up
          THEN /\ result' = [result EXCEPT ![r] = Row(Raised(ConnectionError))]
               /\ UNCHANGED redis
          ELSE IF Cached(key) # None
          THEN /\ result' = [result EXCEPT ![r] =
                                Row(Returned(Rebuild(Cached(key)[1]), "cache"))]
               /\ UNCHANGED redis
          ELSE LET answer == Uncached(u, q)
               IN IF answer.error # ""
                  THEN /\ result' = [result EXCEPT ![r] = Row(answer)]
                       /\ UNCHANGED redis
                  ELSE IF ~alive
                  THEN /\ result' = [result EXCEPT ![r] = Row(Raised(ConnectionError))]
                       /\ redis' = [redis EXCEPT !.up = FALSE]
                  ELSE /\ result' = [result EXCEPT ![r] = Row(answer)]
                       /\ redis' = [redis EXCEPT !.store =
                                       Setex(key, json_dumps(answer.value))]
    /\ UNCHANGED <<dbVars, session, issued, ret>>

\* the 300 seconds of an entry have passed
Expire ==
    /\ \E e \in redis.store : redis' = [redis EXCEPT !.store = @ \ {e}]
    /\ UNCHANGED <<dbVars, reqVars, issued, ret>>

\* the cache store stops answering, or answers again
RedisDown ==
    /\ redis.up
    /\ redis' = [redis EXCEPT !.up = FALSE]
    /\ UNCHANGED <<dbVars, reqVars, issued, ret>>

RedisUp ==
    /\ ~redis.up
    /\ redis' = [redis EXCEPT !.up = TRUE]
    /\ UNCHANGED <<dbVars, reqVars, issued, ret>>


----------------------------------------------------------------------------
(* SpecCache: one invoice of the owner's business, the queries of both   *)
(* users, the writes that change what a query finds, and the cache store *)
(* expiring entries and failing.                                          *)

\* a create_invoice input that persists
ListedInput ==
    [business_id |-> 1, client_id |-> 1,
     invoice_date |-> [kind |-> "datetime", day |-> 1],
     due_date |-> [kind |-> "datetime", day |-> 1],
     items |-> <<>>, discount_type |-> None, discount_value |-> 0,
     shipping_amount |-> 0]

\* the arguments of the queries: the defaults, a status filter, and the
\* second page of one business
QueryParams ==
    {[business_id |-> None, client_id |-> None, status |-> None,
      skip |-> 0, limit |-> DefaultLimit],
     [business_id |-> None, client_id |-> None, status |-> Some("paid"),
      skip |-> 0, limit |-> DefaultLimit],
     [business_id |-> Some(1), client_id |-> None, status |-> None,
      skip |-> 1, limit |-> 1]}

InitCache ==
    /\ now = 0
    /\ user = [u \in Users |-> FreeUser]
    /\ subscription = [u \in Users |-> NoRow]
    /\ businesses = {[NewBusiness(1, Owner, "INV") EXCEPT !.next_invoice_number = 2],
                     NewBusiness(2, "u2", "OTH")}
    /\ invoices = {InvoiceModel(1, 1, FormatInvoiceNumber("INV", 1), ListedInput, 0)}
    /\ payments = EmptyBag
    /\ IdleRequests
    /\ issued = <<[business_id |-> 1, invoice_number |-> FormatInvoiceNumber("INV", 1),
                    month |-> 0]>>
    /\ ret = NoRow
    /\ redis = RedisAtStartup

NextCache ==
    \/ \E u \in Users, q \in QueryParams, alive \in BOOLEAN :
          InvoiceQuery_invoices(1, u, q, alive)
    \/ create_invoice(2, Owner, ListedInput)
    \/ \E u \in Users : send_invoice(u, 1)
    \/ \E u \in Users : mark_invoice_as_paid(u, 1)
    \/ \E u \in Users : delete_invoice(u, 1)
    \/ Expire
    \/ RedisDown
    \/ RedisUp

SpecCache == InitCache /\ [][NextCache]_vars

\* C13: every invoices read that returns a list, from the cache or from the
\* database, returns what the uncached database query for the same user and
\* arguments returns at that moment, whatever was written since the entry
\* was stored.
C13_ReadEqualsDatabase ==
    [][\A u \in Users, q \in QueryParams, alive \in BOOLEAN :
          (InvoiceQuery_invoices(1, u, q, alive) /\ result'[1][1].error = "")
             => Uncached(u, q) = [result'[1][1] EXCEPT !.source = "database"]]_vars

\* C15: an invoices read during which the cache store does not answer, at
\* getex or at setex, gives the caller what the database path gives, not
\* the store's error.
C15_StoreFailureIsAMiss ==
    [][\A u \in Users, q \in QueryParams, alive \in BOOLEAN :
          (InvoiceQuery_invoices(1, u, q, alive) /\ ~redis'.up)
             => result'[1][1] = Uncached(u, q)]_vars


----------------------------------------------------------------------------
(* SpecCodec: a listing as a miss returned and stored it, over Invoice   *)
(* objects of every kind of field value, and the reads that find it.     *)

MaxListed == 1

DefaultQuery ==
    [business_id |-> None, client_id |-> None, status |-> None,
     skip |-> 0, limit |-> DefaultLimit]

\* Invoice objects as the type declares them, each column typed as the
\* database hands it over
InvoiceObjects ==
    {InvoiceType(
       [id |-> PyStr(<<"1">>), business_id |-> PyStr(<<"1">>),
        client_id |-> PyStr(<<"1">>),
        status |-> PyEnum("InvoiceStatus", st),
        invoice_date |-> PyDate("2024-01-01"),
        due_date |-> PyDate("2024-01-31"),
        discount_type |-> dt,
        total_amount |-> PyFloat(2), amount_paid |-> PyFloat(0),
        amount_due |-> PyFloat(2),
        paid_at |-> pa,
        created_at |-> PyDatetime("2024-01-01", "09:00:00")]) :
       st \in {"draft", "paid"},
       dt \in {PyNone, PyEnum("DiscountType", "percentage")},
       pa \in {PyNone, PyDatetime("2024-01-02", "10:00:00")}}

Listings ==
    UNION {[1..n -> InvoiceObjects] : n \in 0..MaxListed}

InitCodec ==
    /\ now = 0
    /\ user = [u \in Users |-> FreeUser]
    /\ subscription = [u \in Users |-> NoRow]
    /\ businesses = {[NewBusiness(1, Owner, "INV") EXCEPT !.next_invoice_number = 2],
                     [NewBusiness(2, "u2", "OTH") EXCEPT !.next_invoice_number = 2]}
    /\ invoices = {InvoiceModel(1, 1, FormatInvoiceNumber("INV", 1), ListedInput, 0),
                   InvoiceModel(2, 2, FormatInvoiceNumber("OTH", 1),
                                [ListedInput EXCEPT !.business_id = 2, !.client_id = 2], 0)}
    /\ payments = EmptyBag
    /\ session = [r \in Requests |-> NoRow]
    /\ issued = <<>>
    /\ ret = NoRow
    /\ \E list \in Listings :
         /\ pc = [r \in Requests |-> IF r = 1 THEN "done" ELSE "idle"]
         /\ result = [r \in Requests |->
                         IF r = 1 THEN Row(Returned(list, "database")) ELSE NoRow]
         /\ redis = [up |-> TRUE,
                     store |-> {[key |-> CacheKey(Owner, DefaultQuery),
                                 text |-> json_dumps(list)]}]

NextCodec ==
    \E u \in Users, q \in QueryParams, alive \in BOOLEAN :
        InvoiceQuery_invoices(2, u, q, alive)

SpecCodec == InitCodec /\ [][NextCodec]_vars

----------------------------------------------------------------------------
(* Claims on what a caller learns about a business that is not theirs *)

\* C21: a create_invoice for a business the caller does not own ends in
\* "Business not found", whether the business exists or not and whatever
\* its invoice count and its owner's plan and status are.
C21_ForeignBusinessLooksAbsent ==
    \A r \in Requests :
        (/\ pc[r] = "done"
         /\ session[r] # NoRow
         /\ ~\E b \in businesses : /\ b.id = session[r][1].business_id
                                   /\ b.user_id = session[r][1].caller)
           => result[r] = Row(BusinessNotFound)


----------------------------------------------------------------------------
(* Claims on plan limits of zero *)

HasActivePlan(user_id) ==
    /\ subscription[user_id] # NoRow
    /\ subscription[user_id][1].status = "active"

\* C26: only a NULL plan limit is unlimited.  With an active subscription
\* whose plan has max_invoices_per_month = 0, can_create_invoice is false
\* at every invoice count; with max_businesses = 0, can_create_business is
\* false.
C26_ZeroLimitDenies ==
    /\ (/\ Asked("can_create_invoice") /\ Argument = 1
        /\ HasActivePlan(Owner)
        /\ subscription[Owner][1].plan.max_invoices_per_month = Some(0))
          => Answer = FALSE
    /\ (/\ Asked("can_create_business")
        /\ HasActivePlan(Owner)
        /\ subscription[Owner][1].plan.max_businesses = Some(0))
          => Answer = FALSE


----------------------------------------------------------------------------
(* Claims on the bounds of amount_paid and amount_due, and on what a      *)
(* removed payment does to a paid invoice                                  *)

\* C23: amount_due is never negative: amount_paid does not exceed
\* total_amount after any sequence of payment operations and
\* mark_invoice_as_paid.
C23_DueNeverNegative ==
    \A i \in invoices : i.amount_due >= 0 /\ i.amount_paid <= i.total_amount

\* a step that removed one payments row and kept the invoice
PaymentDeleted(i, j) ==
    /\ i.id = j.id
    /\ BagCardinality(payments') = BagCardinality(payments) - 1

\* C24: delete_payment on a paid invoice reverts it to sent and clears
\* paid_at only if amount_due > 0 afterwards; an invoice the remaining
\* payments still cover stays paid.
C24_StaysPaidWhileCovered ==
    [][\A i \in invoices : \A j \in invoices' :
          (PaymentDeleted(i, j) /\ i.status = "paid")
             => /\ j.amount_due > 0 => (j.status = "sent" /\ j.paid_at = Null)
                /\ j.amount_due <= 0 => (j.status = "paid" /\ j.paid_at = i.paid_at)]_vars

\* C30: amount_paid is never negative, whatever payments are refunded or
\* deleted, and however often.
C30_PaidNeverNegative ==
    \A i \in invoices : i.amount_paid >= 0


\* a step that inserted a completed payment of `amount` on invoice i
PaymentCreatedOn(i, amount) ==
    payments' = AddRow(payments, [invoice_id |-> i.id, amount |-> amount,
                                  status |-> "completed"])

\* C25: create_payment adds the amount to amount_paid; the invoice becomes
\* paid with paid_at stamped exactly when the resulting amount_due <= 0, and
\* a partial payment leaves status and paid_at as they were.
C25_PaymentApplied ==
    [][\A i \in invoices : \A j \in invoices' : \A a \in Amounts :
          (i.id = j.id /\ PaymentCreatedOn(i, a))
             => /\ j.amount_paid = i.amount_paid + a
                /\ j.amount_due = i.total_amount - j.amount_paid
                /\ j.amount_due <= 0 => (j.status = "paid" /\ j.paid_at = "stamped")
                /\ j.amount_due > 0 => (j.status = i.status /\ j.paid_at = i.paid_at)]_vars

\* C25 witness: a partial payment and the one that completed it
C25_Witness ==
    \E i \in invoices :
        /\ i.status = "paid" /\ i.paid_at = "stamped"
        /\ i.amount_due = 0
        /\ BagCardinality(payments) = 2
        /\ \A p \in BagToSet(payments) : p.status = "completed" /\ p.amount < i.total_amount
        /\ i.amount_paid = SumCompleted(i)


----------------------------------------------------------------------------
(* SpecShared: two businesses of two users, each as create_business built *)
(* it with the default prefix, and their create_invoice requests, one at  *)
(* a time.                                                                 *)

SharedInputs ==
    {[ListedInput EXCEPT !.business_id = b, !.client_id = b] : b \in {1, 2}}

InitShared ==
    /\ now = 0
    /\ user = [u \in Users |-> FreeUser]
    /\ subscription = [u \in Users |-> NoRow]
    /\ businesses = {NewBusiness(1, Owner, "INV"), NewBusiness(2, "u2", "INV")}
    /\ invoices = {}
    /\ payments = EmptyBag
    /\ IdleRequests
    /\ issued = <<>>
    /\ ret = NoRow
    /\ redis = RedisAtStartup

NextShared ==
    \/ /\ Len(issued) < MaxCreates
       /\ \E r \in Requests, u \in Users, input \in SharedInputs :
             create_invoice(r, u, input)
    \/ \E r \in Requests : ci_next(r)

SpecShared == InitShared /\ [][NextShared]_vars

\* the number create_invoice derives for business b is held by no invoice
\* of business b
FreeWithinBusiness(b) ==
    \A i \in invoices : i.business_id = b.id => i.invoice_number # NextNumber(b)

\* C28: a create_invoice by the owner of a business never fails on an
\* invoice number that only another business holds, also when both
\* businesses have the same prefix and the same counter.
C28_NumberingPerBusiness ==
    [][\A r \in Requests, u \in Users, input \in SharedInputs :
          (/\ create_invoice(r, u, input)
           /\ \E b \in businesses : /\ b.id = input.business_id /\ b.user_id = u
                                    /\ FreeWithinBusiness(b))
             => result'[r] # Row(IntegrityError)]_vars


----------------------------------------------------------------------------
(* Claims on the invoice total against the stored lines *)

\* the sum of the stored line_total of the items
RECURSIVE SumOfLineTotals(_)
SumOfLineTotals(items) ==
    IF items = <<>> THEN 0
    ELSE Head(items).line_total + SumOfLineTotals(Tail(items))

\* C29: for every invoice persisted by create_invoice, total_amount is the
\* sum of its items' line_total minus the document discount_amount plus
\* shipping_amount, also when items carry their own discounts.
C29_TotalReconcilesWithLines ==
    \A i \in invoices :
        i.total_amount = SumOfLineTotals(i.items) - i.discount_amount + i.shipping_amount


----------------------------------------------------------------------------
(* Claims on whose invoices a read returns *)

OwnsBusiness(u, business_id) ==
    \E b \in businesses : b.id = business_id /\ b.user_id = u

\* the rows the database query hands to any caller are the caller's
OwnRowsOnly ==
    \A u \in Users, q \in QueryParams :
        \A k \in 1..Len(Listing(u, q)) : OwnsBusiness(u, Listing(u, q)[k].business_id)

\* the invoices a read returned to u, from the cache or not, are u's
OwnInvoicesReturned(u, list) ==
    \A k \in 1..Len(list) :
        \E b \in businesses : /\ b.user_id = u
                              /\ list[k].business_id = PyStr(<<ToString(b.id)>>)

----------------------------------------------------------------------------
(* SpecTenant: two users, each with a business and an invoice; every      *)
(* invoice and payment handler called by either user on the owner's       *)
(* invoice, and the owner's calls on the other user's invoice.            *)

PaymentNotFound == "Payment not found"

\* `if not invoice: raise Exception("Invoice not found")`, the same in
\* update_invoice, delete_invoice, send_invoice, mark_invoice_as_paid,
\* cancel_invoice and create_payment: nothing was written before it
invoice_not_found(r, u, id) ==
    /\ OwnedInvoices(u, id) = {}
    /\ result' = [result EXCEPT ![r] =
                     Row([error |-> InvoiceNotFound, caller |-> u, target |-> id])]
    /\ UNCHANGED <<dbVars, pc, session, issued, ret, redis>>

\* `if not payment: raise Exception("Payment not found")`, the same in
\* update_payment, delete_payment and refund_payment, for the payment p
payment_not_found(r, u) ==
    /\ \E p \in BagToSet(payments) :
         /\ p \notin OwnedPayments(u)
         /\ result' = [result EXCEPT ![r] =
                          Row([error |-> PaymentNotFound, caller |-> u,
                               target |-> p.invoice_id])]
    /\ UNCHANGED <<dbVars, pc, session, issued, ret, redis>>

\* an invoice with one line, as create_invoice persists it
LineInput(business_id) ==
    [ListedInput EXCEPT
        !.business_id = business_id, !.client_id = business_id,
        !.items = <<[quantity |-> 1, unit_price |-> 2, tax_rate |-> 0,
                     discount_type |-> None, discount_value |-> 0]>>]

InitTenant ==
    /\ now = 0
    /\ user = [u \in Users |-> FreeUser]
    /\ subscription = [u \in Users |-> NoRow]
    /\ businesses = {[NewBusiness(1, Owner, "INV") EXCEPT !.next_invoice_number = 2],
                     [NewBusiness(2, "u2", "OTH") EXCEPT !.next_invoice_number = 2]}
    /\ invoices = {InvoiceModel(1, 1, FormatInvoiceNumber("INV", 1), LineInput(1), 0),
                   InvoiceModel(2, 2, FormatInvoiceNumber("OTH", 1), LineInput(2), 0)}
    /\ payments = EmptyBag
    /\ IdleRequests
    /\ issued = <<>>
    /\ ret = NoRow
    /\ redis = RedisAtStartup

NextTenant ==
    \E u \in Users :
        \/ update_invoice(u, 1, Some("viewed"))
        \/ delete_invoice(u, 1)
        \/ send_invoice(u, 1)
        \/ mark_invoice_as_paid(u, 1)
        \/ cancel_invoice(u, 1)
        \/ create_payment(u, 1, 1)
        \/ update_payment(u, Some(2), None)
        \/ delete_payment(u)
        \/ refund_payment(u)
        \/ \E id \in {1, 2} : invoice_not_found(1, u, id)
        \/ payment_not_found(1, u)

SpecTenant == InitTenant /\ [][NextTenant]_vars

\* invoice `id` exists and its business is not u's
ForeignInvoice(u, id) ==
    \E i \in invoices : /\ i.id = id
                        /\ \A b \in businesses : b.id = i.business_id => b.user_id # u

\* payments exist and each is on an invoice of a business that is not u's
ForeignPayments(u) ==
    /\ payments # EmptyBag
    /\ \A p \in BagToSet(payments) : ForeignInvoice(u, p.invoice_id)

RowsUnchanged == invoices' = invoices /\ payments' = payments

\* C22: each of the nine handlers, called by a user who does not own the
\* business of the invoice or payment it names, ends in the not-found error
\* and leaves every invoice, with its items, and every payment unchanged.
C22_ForeignCallChangesNothing ==
    [][\A u \in Users :
          /\ \A id \in {1, 2} :
               (/\ ForeignInvoice(u, id)
                /\ \/ update_invoice(u, id, Some("viewed"))
                   \/ delete_invoice(u, id)
                   \/ send_invoice(u, id)
                   \/ mark_invoice_as_paid(u, id)
                   \/ cancel_invoice(u, id)
                   \/ create_payment(u, id, 1)
                   \/ invoice_not_found(1, u, id))
                  => /\ result'[1] # NoRow
                     /\ result'[1][1].error = InvoiceNotFound
                     /\ RowsUnchanged
          /\ (/\ ForeignPayments(u)
              /\ \/ update_payment(u, Some(2), None)
                 \/ delete_payment(u)
                 \/ refund_payment(u)
                 \/ payment_not_found(1, u))
                => /\ result'[1] # NoRow
                   /\ result'[1][1].error = PaymentNotFound
                   /\ RowsUnchanged]_vars

\* C22 witness: the other user asked for the owner's invoice, which exists
\* and has a payment, and was told it was not found
C22_Witness ==
    /\ result[1] # NoRow
    /\ result[1][1].error = InvoiceNotFound
    /\ result[1][1].caller = "u2"
    /\ result[1][1].target = 1
    /\ \E i \in invoices : i.id = 1 /\ i.amount_paid > 0
    /\ \E p \in BagToSet(payments) : p.invoice_id = 1

====
